---- MODULE Spec2Model ----
(***************************************************************************)
(* Start-up of the hi-vulkanos triangle program (src/main.rs, fn main):    *)
(* load the Vulkan library, create the instance, the window and the        *)
(* surface, enumerate the physical devices, select one, resolve a queue    *)
(* family on it and create the logical device.                             *)
(*                                                                         *)
(* A physical device is known by its place in the enumeration (1-based,    *)
(* as a TLA+ sequence index); a queue family by its 0-based index, as      *)
(* Iterator::position returns it.  A Rust Option is a sequence of length   *)
(* at most one: <<>> is None and <<x>> is Some(x).                         *)
(***************************************************************************)
EXTENDS Integers, Sequences, FiniteSets, TLC

VARIABLES pc, panic, surface, devices, physical_device, queue_family_index,
          device_new

\* pc                  where main stands: the call it makes next, "created"
\*                     after Device::new, "panicked" after a panic
\* panic               the message main panicked with, "" before
\* surface             whether the surface exists (line 38)
\* devices             what enumerate_physical_devices answered
\* physical_device     Option of the handle selected (line 45-66)
\* queue_family_index  Option of the index resolved (line 78-86)
\* device_new          Option of the arguments Device::new was called with
vars == <<pc, panic, surface, devices, physical_device, queue_family_index,
          device_new>>

----------------------------------------------------------------------------
(* Bounds of the model. *)

\* Longest enumeration of physical devices the driver answers with.
MaxDevices == 2

\* Longest queue family list of a device the resolver is tried on by itself.
MaxFamilies == 3

----------------------------------------------------------------------------
(* Values of the Vulkan types the program reads. *)

GRAPHICS == "GRAPHICS"
COMPUTE  == "COMPUTE"
TRANSFER == "TRANSFER"

\* QueueFlags: a bit set.
QueueFlagBits == {GRAPHICS, COMPUTE, TRANSFER}

DiscreteGpu   == "DiscreteGpu"
IntegratedGpu == "IntegratedGpu"
VirtualGpu    == "VirtualGpu"
Cpu           == "Cpu"
Other         == "Other"

PhysicalDeviceType == {DiscreteGpu, IntegratedGpu, VirtualGpu, Cpu, Other}

\* The panic messages of main, by the failure each reports.
DriverLoadError       == "no local Vulkan library/DLL found"
InstanceError         == "Failed to create an instance"
WindowError           == "WindowBuilder::build: unwrap on an Err value"
SurfaceError          == "Surface::from_window: unwrap on an Err value"
EnumerationError      == "Could not enumerate devices"
NoSuitableDeviceError == "No suitable physical device could be found."
NoQueueFamilyError    == "couldn't find a graphical queue family"
DeviceCreationError   == "Failed to create device."

\* let device_extensions = DeviceExtensions { khr_swapchain: true, .. empty() }
\* DeviceExtensions has one boolean field per extension; it is read as the
\* set of the fields that are true.
device_extensions == {"khr_swapchain"}

----------------------------------------------------------------------------
(* The library operations the selection is built from. *)

\* Fault: the receiver and the argument exchanged.
extensions_contains_swapped(self, other) == self \subseteq other

\* DeviceExtensions::contains(&self, other): every extension of other is
\* enabled in self.
extensions_contains(self, other) == other \subseteq self

\* QueueFlags::intersects(self, other): the two sets share a bit.
intersects(self, other) == self \cap other # {}

\* Fault: equality in place of inclusion.
contains_exactly(self, other) == self = other

\* QueueFlags::contains(self, other): self holds every bit of other.
contains(self, other) == other \subseteq self

\* The closure of the selector's position call (line 52-55).
probe_predicate(q) == intersects(q.queue_flags, {GRAPHICS})

\* Fault: the receiver and the argument exchanged.
resolve_predicate_swapped(q) == contains({GRAPHICS}, q.queue_flags)

\* The closure of the resolver's position call (line 81-85).
resolve_predicate(q) == contains(q.queue_flags, {GRAPHICS})

\* Iterator::position with the selector's closure: scan from the 0-based
\* index i, answer the index of the first element the closure accepts.
RECURSIVE probe_position_from(_, _)
probe_position_from(qs, i) ==
    IF i >= Len(qs) THEN <<>>
    ELSE IF probe_predicate(qs[i + 1]) THEN <<i>>
    ELSE probe_position_from(qs, i + 1)

probe_position(qs) == probe_position_from(qs, 0)

\* Fault: the last accepted element in place of the first (rposition).
RECURSIVE resolve_position_last_from(_, _)
resolve_position_last_from(qs, i) ==
    IF i >= Len(qs) THEN <<>>
    ELSE LET later == resolve_position_last_from(qs, i + 1)
         IN IF later # <<>> THEN later
            ELSE IF contains(qs[i + 1].queue_flags, {GRAPHICS}) THEN <<i>>
            ELSE <<>>

\* Iterator::position with the resolver's closure.
RECURSIVE resolve_position_from(_, _)
resolve_position_from(qs, i) ==
    IF i >= Len(qs) THEN <<>>
    ELSE IF resolve_predicate(qs[i + 1]) THEN <<i>>
    ELSE resolve_position_from(qs, i + 1)

resolve_position(qs) == resolve_position_from(qs, 0)

\* .filter(|p| p.supported_extensions().contains(&device_extensions)):
\* the handles of ps, in order, whose device passes.
RECURSIVE filter_extensions(_, _)
filter_extensions(devs, ps) ==
    IF ps = <<>> THEN <<>>
    ELSE LET p == Head(ps)
             rest == filter_extensions(devs, Tail(ps))
         IN IF extensions_contains(devs[p].supported_extensions, device_extensions)
            THEN <<p>> \o rest
            ELSE rest

\* Fault: the queue family filter left out.
filter_map_queue_keeps_all(devs, ps) == ps

\* .filter_map(|p| p.queue_family_properties().iter().position(..).map(|_| p))
RECURSIVE filter_map_queue(_, _)
filter_map_queue(devs, ps) ==
    IF ps = <<>> THEN <<>>
    ELSE LET p == Head(ps)
             rest == filter_map_queue(devs, Tail(ps))
         IN IF probe_position(devs[p].queue_family_properties) # <<>>
            THEN <<p>> \o rest
            ELSE rest

\* Fault: the keys of two arms exchanged.
device_type_key_exchanged(t) ==
    CASE t = DiscreteGpu   -> 1
      [] t = IntegratedGpu -> 0
      [] t = VirtualGpu    -> 2
      [] t = Cpu           -> 3
      [] t = Other         -> 4
      [] OTHER             -> 5

\* The key closure of min_by_key (line 58-65).
device_type_key(t) ==
    CASE t = DiscreteGpu   -> 0
      [] t = IntegratedGpu -> 1
      [] t = VirtualGpu    -> 2
      [] t = Cpu           -> 3
      [] t = Other         -> 4
      [] OTHER             -> 5

\* Fault: the later element wins a tie.
min_by_last_wins(devs, x, y) ==
    IF device_type_key(devs[x].device_type) >= device_type_key(devs[y].device_type)
    THEN y
    ELSE x

\* core::cmp::min_by(x, y, compare) on the keys: y only when x's key is
\* strictly greater.
min_by(devs, x, y) ==
    IF device_type_key(devs[x].device_type) > device_type_key(devs[y].device_type)
    THEN y
    ELSE x

\* Iterator::reduce with min_by, the accumulator first.
RECURSIVE reduce_min(_, _, _)
reduce_min(devs, acc, ps) ==
    IF ps = <<>> THEN acc
    ELSE reduce_min(devs, min_by(devs, acc, Head(ps)), Tail(ps))

\* Iterator::min_by_key: None on an empty iterator.
min_by_key(devs, ps) ==
    IF ps = <<>> THEN <<>>
    ELSE <<reduce_min(devs, Head(ps), Tail(ps))>>

\* The handles the enumeration yields, in enumeration order.
RECURSIVE handles_upto(_)
handles_upto(n) == IF n = 0 THEN <<>> ELSE handles_upto(n - 1) \o <<n>>

\* The whole iterator chain of line 45-65.
select(devs) ==
    min_by_key(devs,
        filter_map_queue(devs,
            filter_extensions(devs, handles_upto(Len(devs)))))

----------------------------------------------------------------------------
(* What the driver may answer. *)

RECURSIVE SeqsUpTo(_, _)
SeqsUpTo(S, n) ==
    IF n = 0 THEN {<<>>}
    ELSE LET shorter == SeqsUpTo(S, n - 1)
         IN shorter \cup {Append(s, x) : s \in shorter, x \in S}

\* QueueFamilyProperties, with what Surface answers for the family
\* (PhysicalDevice::surface_support).
QueueFamilyProperties ==
    [queue_flags : SUBSET QueueFlagBits, surface_support : BOOLEAN]

\* The queue family lists of the enumerated devices: no graphics family;
\* one graphics family the surface cannot present from; the first graphics
\* family behind a transfer family; two graphics families of which only
\* the second can present.
EnumeratedFamilies ==
    { <<[queue_flags |-> {TRANSFER}, surface_support |-> TRUE]>>,
      <<[queue_flags |-> {GRAPHICS, COMPUTE, TRANSFER}, surface_support |-> FALSE]>>,
      <<[queue_flags |-> {TRANSFER}, surface_support |-> TRUE],
        [queue_flags |-> {GRAPHICS, TRANSFER}, surface_support |-> TRUE]>>,
      <<[queue_flags |-> {GRAPHICS}, surface_support |-> FALSE],
        [queue_flags |-> {GRAPHICS, COMPUTE}, surface_support |-> TRUE]>> }

EnumeratedExtensions ==
    { {}, {"khr_swapchain"}, {"khr_swapchain", "khr_maintenance1"} }

PhysicalDevices ==
    [supported_extensions : EnumeratedExtensions,
     queue_family_properties : EnumeratedFamilies,
     device_type : PhysicalDeviceType]

\* The devices the resolver is tried on by itself: every queue family list
\* up to MaxFamilies.
ResolverDevices ==
    [supported_extensions : {device_extensions},
     queue_family_properties :
         SeqsUpTo({q \in QueueFamilyProperties : q.surface_support}, MaxFamilies),
     device_type : {DiscreteGpu}]

----------------------------------------------------------------------------
(* The steps of main. *)

Panic(msg) ==
    /\ pc' = "panicked"
    /\ panic' = msg

Init ==
    /\ pc = "library"
    /\ panic = ""
    /\ surface = FALSE
    /\ devices = <<>>
    /\ physical_device = <<>>
    /\ queue_family_index = <<>>
    /\ device_new = <<>>

\* VulkanLibrary::new().expect(..)
LoadLibrary ==
    /\ pc = "library"
    /\ \E ok \in BOOLEAN :
          IF ok THEN pc' = "instance" /\ panic' = panic
                ELSE Panic(DriverLoadError)
    /\ UNCHANGED <<surface, devices, physical_device, queue_family_index, device_new>>

\* Instance::new(..).expect(..)
CreateInstance ==
    /\ pc = "instance"
    /\ \E ok \in BOOLEAN :
          IF ok THEN pc' = "window" /\ panic' = panic
                ELSE Panic(InstanceError)
    /\ UNCHANGED <<surface, devices, physical_device, queue_family_index, device_new>>

\* WindowBuilder::new().build(&event_loop).unwrap()
BuildWindow ==
    /\ pc = "window"
    /\ \E ok \in BOOLEAN :
          IF ok THEN pc' = "surface" /\ panic' = panic
                ELSE Panic(WindowError)
    /\ UNCHANGED <<surface, devices, physical_device, queue_family_index, device_new>>

\* Surface::from_window(..).unwrap()
CreateSurface ==
    /\ pc = "surface"
    /\ \E ok \in BOOLEAN :
          IF ok THEN pc' = "enumerate" /\ panic' = panic /\ surface' = TRUE
                ELSE Panic(SurfaceError) /\ surface' = surface
    /\ UNCHANGED <<devices, physical_device, queue_family_index, device_new>>

\* instance.enumerate_physical_devices().expect(..)
Enumerate ==
    /\ pc = "enumerate"
    /\ \/ /\ Panic(EnumerationError)
          /\ devices' = devices
       \/ /\ \E devs \in SeqsUpTo(PhysicalDevices, MaxDevices) : devices' = devs
          /\ pc' = "select"
          /\ panic' = panic
    /\ UNCHANGED <<surface, physical_device, queue_family_index, device_new>>

\* Fault: an empty selection enumerates again instead of panicking.
Select_retries ==
    /\ pc = "select"
    /\ LET chosen == select(devices)
       IN IF chosen = <<>>
          THEN pc' = "enumerate" /\ panic' = panic /\ physical_device' = physical_device
          ELSE pc' = "resolve" /\ panic' = panic /\ physical_device' = chosen
    /\ UNCHANGED <<surface, devices, queue_family_index, device_new>>

\* .filter(..).filter_map(..).min_by_key(..).expect(..)
Select ==
    /\ pc = "select"
    /\ LET chosen == select(devices)
       IN IF chosen = <<>>
          THEN Panic(NoSuitableDeviceError) /\ physical_device' = physical_device
          ELSE pc' = "resolve" /\ panic' = panic /\ physical_device' = chosen
    /\ UNCHANGED <<surface, devices, queue_family_index, device_new>>

\* physical_device.queue_family_properties().iter().position(..).expect(..)
Resolve ==
    /\ pc = "resolve"
    /\ LET found == resolve_position(
                        devices[physical_device[1]].queue_family_properties)
       IN IF found = <<>>
          THEN Panic(NoQueueFamilyError) /\ queue_family_index' = queue_family_index
          ELSE pc' = "device" /\ panic' = panic /\ queue_family_index' = found
    /\ UNCHANGED <<surface, devices, physical_device, device_new>>

\* Device::new(physical_device, DeviceCreateInfo {..}).expect(..)
CreateDevice ==
    /\ pc = "device"
    /\ device_new' = <<[physical_device |-> physical_device[1],
                        enabled_extensions |-> device_extensions,
                        queue_family_index |-> queue_family_index[1]]>>
    /\ \E ok \in BOOLEAN :
          IF ok THEN pc' = "created" /\ panic' = panic
                ELSE Panic(DeviceCreationError)
    /\ UNCHANGED <<surface, devices, physical_device, queue_family_index>>

Next ==
    \/ LoadLibrary
    \/ CreateInstance
    \/ BuildWindow
    \/ CreateSurface
    \/ Enumerate
    \/ Select
    \/ Resolve
    \/ CreateDevice

Spec == Init /\ [][Next]_vars

\* The resolver and the device creation by themselves, on any device.
InitResolve ==
    /\ pc = "resolve"
    /\ panic = ""
    /\ surface = TRUE
    /\ \E d \in ResolverDevices : devices = <<d>>
    /\ physical_device = <<1>>
    /\ queue_family_index = <<>>
    /\ device_new = <<>>

NextResolve ==
    \/ Resolve
    \/ CreateDevice

SpecResolve == InitResolve /\ [][NextResolve]_vars

----------------------------------------------------------------------------
(* The properties. *)

\* The criteria of the selection as the specification words them.
RequiredExtensions == {"khr_swapchain"}
RequiredQueueFlags == {GRAPHICS}

FamilyIndices(d) == 0 .. (Len(d.queue_family_properties) - 1)

Family(d, i) == d.queue_family_properties[i + 1]

\* d passes the extension filter and the queue family filter.
Qualifies(d) ==
    /\ RequiredExtensions \subseteq d.supported_extensions
    /\ \E i \in FamilyIndices(d) :
          Family(d, i).queue_flags \cap RequiredQueueFlags # {}

Survivors == {i \in 1 .. Len(devices) : Qualifies(devices[i])}

\* The selector has run (to a device or to its panic).
SelectRan ==
    \/ pc \in {"resolve", "device", "created"}
    \/ /\ pc = "panicked"
       /\ panic \in {NoSuitableDeviceError, NoQueueFamilyError, DeviceCreationError}

\* The resolver has run (to an index or to its panic).
ResolveRan ==
    \/ pc \in {"device", "created"}
    \/ /\ pc = "panicked"
       /\ panic \in {NoQueueFamilyError, DeviceCreationError}

Chosen == devices[physical_device[1]]

PreferenceOrder == <<DiscreteGpu, IntegratedGpu, VirtualGpu, Cpu, Other>>

\* a comes strictly before b in the preference order.
StrictlyPreferred(a, b) ==
    \E i, j \in DOMAIN PreferenceOrder :
        /\ PreferenceOrder[i] = a
        /\ PreferenceOrder[j] = b
        /\ i < j

\* C1: when some candidate passes both filters the selector returns a
\* candidate, and a candidate it returns always passes both: its extensions
\* contain every required extension and one of its queue families has flags
\* that intersect the required flags.
C1_SelectReturnsMatching ==
    /\ (SelectRan /\ Survivors # {}) => physical_device # <<>>
    /\ physical_device # <<>> =>
          /\ physical_device[1] \in 1 .. Len(devices)
          /\ Qualifies(Chosen)

\* The selector passed over a candidate that fails a filter and returned a
\* later one.
C1_Witness ==
    /\ pc = "resolve"
    /\ Len(devices) = 2
    /\ ~Qualifies(devices[1])
    /\ physical_device = <<2>>

\* C2: when no candidate passes both filters (the empty enumeration
\* included) the selector panics with NoSuitableDeviceError and nothing is
\* produced: no device, no queue family index, no call of Device::new.
C2_NoSurvivorFails ==
    (SelectRan /\ Survivors = {}) =>
        /\ pc = "panicked"
        /\ panic = NoSuitableDeviceError
        /\ physical_device = <<>>
        /\ queue_family_index = <<>>
        /\ device_new = <<>>

\* Two candidates, one failing the extension filter and one the queue
\* family filter, and the selector has panicked.
C2_Witness ==
    /\ pc = "panicked"
    /\ panic = NoSuitableDeviceError
    /\ Len(devices) = 2
    /\ ~(RequiredExtensions \subseteq devices[1].supported_extensions)
    /\ RequiredExtensions \subseteq devices[2].supported_extensions

\* C3: no candidate that passes both filters has a device class strictly
\* more preferred (Discrete < Integrated < Virtual < CPU < Other) than the
\* class of the returned candidate.
C3_BestClass ==
    physical_device # <<>> =>
        \A i \in Survivors :
            ~StrictlyPreferred(devices[i].device_type, Chosen.device_type)

\* An integrated GPU enumerated before a discrete one, both passing, and
\* the discrete one returned.
C3_Witness ==
    /\ pc = "resolve"
    /\ Survivors = {1, 2}
    /\ devices[1].device_type = IntegratedGpu
    /\ devices[2].device_type = DiscreteGpu
    /\ physical_device = <<2>>

\* The survivors of the most preferred class present.
BestSurvivors ==
    {i \in Survivors :
        \A j \in Survivors :
            ~StrictlyPreferred(devices[j].device_type, devices[i].device_type)}

\* C4: of the surviving candidates of the best class, the selector returns
\* the one enumerated first.
C4_FirstOfBestClass ==
    physical_device # <<>> =>
        /\ physical_device[1] \in BestSurvivors
        /\ \A i \in BestSurvivors : physical_device[1] <= i

\* Two different surviving candidates of the same class, the first returned.
C4_Witness ==
    /\ pc = "resolve"
    /\ Survivors = {1, 2}
    /\ devices[1].device_type = devices[2].device_type
    /\ devices[1] # devices[2]
    /\ physical_device = <<1>>

\* C5: the resolver returns the lowest index whose queue family's flags
\* contain all the required flags: the family at the index contains them
\* and every family before it lacks one.
C5_LowestContaining ==
    queue_family_index # <<>> =>
        /\ queue_family_index[1] \in FamilyIndices(Chosen)
        /\ RequiredQueueFlags \subseteq Family(Chosen, queue_family_index[1]).queue_flags
        /\ \A j \in 0 .. (queue_family_index[1] - 1) :
              ~(RequiredQueueFlags \subseteq Family(Chosen, j).queue_flags)

\* Families {Transfer}, {Graphics, Transfer}, {Graphics}: index 1.
C5_Witness ==
    /\ pc = "device"
    /\ Len(Chosen.queue_family_properties) = 3
    /\ Family(Chosen, 0).queue_flags = {TRANSFER}
    /\ Family(Chosen, 1).queue_flags = {GRAPHICS, TRANSFER}
    /\ Family(Chosen, 2).queue_flags = {GRAPHICS}
    /\ queue_family_index = <<1>>

\* C6: the resolver panics with NoQueueFamilyError exactly when no queue
\* family of the device has flags containing the required flags, and then
\* there is no queue family index and no call of Device::new.
C6_NoFamilyFails ==
    ResolveRan =>
        /\ (panic = NoQueueFamilyError) <=>
              ~(\E i \in FamilyIndices(Chosen) :
                    RequiredQueueFlags \subseteq Family(Chosen, i).queue_flags)
        /\ (panic = NoQueueFamilyError) =>
              /\ pc = "panicked"
              /\ queue_family_index = <<>>
              /\ device_new = <<>>

\* A device with compute and transfer families only, and the panic.
C6_Witness ==
    /\ pc = "panicked"
    /\ panic = NoQueueFamilyError
    /\ Len(Chosen.queue_family_properties) = 2
    /\ Family(Chosen, 0).queue_flags = {COMPUTE}
    /\ Family(Chosen, 1).queue_flags = {TRANSFER}

\* C7: with the surface supplied, the selector never returns a device none
\* of whose flag-qualifying queue families can present to the surface.
C7_PresentableSelected ==
    (surface /\ physical_device # <<>>) =>
        \E i \in FamilyIndices(Chosen) :
            /\ Family(Chosen, i).queue_flags \cap RequiredQueueFlags # {}
            /\ Family(Chosen, i).surface_support

\* C8: what reaches Device::new is a device whose extensions contain the
\* required ones and a queue family whose flags contain the required flags
\* and which, the surface being supplied, can present to it.
C8_SelectionResultInvariant ==
    device_new # <<>> =>
        LET d == devices[device_new[1].physical_device]
            q == Family(d, device_new[1].queue_family_index)
        IN /\ RequiredExtensions \subseteq d.supported_extensions
           /\ RequiredQueueFlags \subseteq q.queue_flags
           /\ surface => q.surface_support

StageOrder ==
    <<"library", "instance", "window", "surface", "enumerate", "select",
      "resolve", "device", "created">>

StageNo(s) == CHOOSE k \in DOMAIN StageOrder : StageOrder[k] = s

\* The panics of each stage.
StageFailures(s) ==
    CASE s = "library"   -> {DriverLoadError}
      [] s = "instance"  -> {InstanceError}
      [] s = "window"    -> {WindowError}
      [] s = "surface"   -> {SurfaceError}
      [] s = "enumerate" -> {EnumerationError}
      [] s = "select"    -> {NoSuitableDeviceError}
      [] s = "resolve"   -> {NoQueueFamilyError}
      [] s = "device"    -> {DeviceCreationError}
      [] OTHER           -> {}

\* One step of the start-up: from a stage that is neither the panic nor the
\* end, to the next stage in order or to the panic of this stage; each
\* result is produced by its own stage only, and Device::new is handed the
\* selected device, the resolved index and the required extensions.
C9_Step ==
    /\ pc \notin {"panicked", "created"}
    /\ \/ /\ pc' = "panicked"
          /\ panic' \in StageFailures(pc)
       \/ /\ pc' \in {StageOrder[k] : k \in DOMAIN StageOrder}
          /\ StageNo(pc') = StageNo(pc) + 1
          /\ panic' = panic
    /\ devices' # devices => pc = "enumerate"
    /\ physical_device' # physical_device => pc = "select" /\ pc' = "resolve"
    /\ queue_family_index' # queue_family_index => pc = "resolve" /\ pc' = "device"
    /\ device_new' # device_new =>
          /\ pc = "device"
          /\ device_new = <<>>
          /\ device_new' = <<[physical_device |-> physical_device[1],
                              enabled_extensions |-> RequiredExtensions,
                              queue_family_index |-> queue_family_index[1]]>>
    /\ pc' = "created" => device_new' # <<>>

\* C9: the stages run in the order library, instance, window, surface,
\* enumerate, select, resolve, device creation, each at most once; a stage
\* starts only after the one before it succeeded; the first failure ends the
\* start-up and nothing is retried; Device::new is called only with the
\* selected device, the resolved index and the required extensions.
C9_StagesInOrder == [][C9_Step]_vars

\* The start-up ran to the created device.
C9_Witness ==
    /\ pc = "created"
    /\ device_new # <<>>
    /\ Len(devices) = 2

\* The lowest index of a family whose flags intersect the required flags.
LowestIntersecting(d) ==
    CHOOSE i \in FamilyIndices(d) :
        /\ Family(d, i).queue_flags \cap RequiredQueueFlags # {}
        /\ \A j \in 0 .. (i - 1) :
              Family(d, j).queue_flags \cap RequiredQueueFlags = {}

\* C10: with GRAPHICS as the only required flag, the resolver never panics
\* on the device the selector returned, and it returns the lowest index
\* whose family's flags intersect the required flags, which is the index
\* the selector's own search stopped at.
C10_ResolveAgreesWithProbe ==
    /\ panic # NoQueueFamilyError
    /\ ResolveRan =>
          /\ queue_family_index # <<>>
          /\ queue_family_index[1] = LowestIntersecting(Chosen)

\* The resolver returned an index other than 0 on a selected device whose
\* graphics family has more than the graphics bit.
C10_Witness ==
    /\ pc = "device"
    /\ queue_family_index = <<1>>
    /\ Family(Chosen, 1).queue_flags # {GRAPHICS}

====
